---- MODULE Spec2Model ----
(***************************************************************************)
(* Model of arduino/gamecube_control/gamecube_control.ino: a GameCube      *)
(* controller emulator.  loop() receives one command byte from the console *)
(* (gc_get), answers it (gc_send), then either consumes a move code from   *)
(* the host serial link and rebuilds the move queue, or advances playback  *)
(* of the queue every fifth iteration.                                     *)
(***************************************************************************)
EXTENDS Integers, Sequences, FiniteSets, TLC

VARIABLES
    move_queue,  \* static MoveQueue move_queue: [queue, n, pos]
    gc_status,   \* static GCStatus gc_status
    i,           \* unsigned int i (16 bit on the AVR)
    pc,          \* position inside loop(): "recv", "dispatch", "host"
    ret,         \* int ret, the last value returned by gc_get
    from_gc,     \* unsigned char from_gc, the byte gc_get writes through bitbin
    tx,          \* bits put on the bus by gc_send during this loop() call
    b,           \* unsigned char b, the last move code read from Serial
    advances,    \* calls of MoveQueue_next since the queue was last built
    total,       \* sum of the repeat counts of the queue as last built
    gpc,         \* position inside gc_get's assembly block
    r23,         \* AVR register r23: the byte being assembled
    r24,         \* AVR register r24: the spin-wait timeout counter
    r25,         \* AVR register r25: the bit counter
    retval,      \* gc_get's retval
    line,        \* level of PIND2 at the last sample (1 = high)
    gap,         \* loop iterations completed since the one that last called
                 \* MoveQueue_next, NoByte when a move code came in between
    sent,        \* the buffer a gc_send at the far end of the line transmits
    wire,        \* the bits that gc_send puts on the line
    clock        \* CPU cycles since the first falling edge on the line

vars == <<move_queue, gc_status, i, pc, ret, from_gc, tx, b, advances, total,
          gpc, r23, r24, r25, retval, line, gap, sent, wire, clock>>

loopVars == <<move_queue, gc_status, i, tx, b, advances, total, gap>>
getVars == <<gpc, r23, r24, r25, retval, line, sent, wire, clock>>
busVars == <<sent, wire, clock>>

----------------------------------------------------------------------------
(* Bounds of the model *)

\* idle loop iterations explored after the last move code
MaxIter == 101
\* loop iterations before the wrap of i at which a long idle run is picked up
WrapLead == 12
\* cycles before the first falling edge at which gc_get is entered, at most
MaxLead == 5

----------------------------------------------------------------------------
(* Program constants *)

MOVE_QUEUE_MAX == 10
UINT16 == 65536
ADVANCE_PERIOD == 5
FAST_DROP_COUNT == 8
SPIN_BUDGET == 64

\* marks a local variable that holds no value yet
NoByte == -1

Byte == 0..255
\* every byte the host link can deliver
AllCodes == 0..255
\* the move codes the host sends when it sends any number of them:
\* 16 = no move, 32 = two right, 17 = fast drop only, 22 = anticlockwise,
\* 4 = two left and two clockwise, 57 = five right and fast drop
HostCodes == {16, 32, 17, 22, 4, 57}
\* values an uninitialised register is taken to hold
UninitBytes == {0, 170, 255}
\* command bytes the console is taken to send: the three recognised ones
\* and two unrecognised ones
Commands == {0, 64, 65, 1, 255}

initial_gc_status ==
    [data1 |-> 0, data2 |-> 0, stick_x |-> 128, stick_y |-> 128,
     cstick_x |-> 128, cstick_y |-> 128, left |-> 0, right |-> 0]

\* a GCStatus of the zero-initialised static storage
zero_gc_status ==
    [data1 |-> 0, data2 |-> 0, stick_x |-> 0, stick_y |-> 0,
     cstick_x |-> 0, cstick_y |-> 0, left |-> 0, right |-> 0]

identify_response == <<9, 0, 32>>
origin_response == <<0, 128, 125, 135, 130, 133, 31, 34, 0, 0>>

\* the memory image of a GCStatus, in declaration order
StatusBytes(s) ==
    <<s.data1, s.data2, s.stick_x, s.stick_y,
      s.cstick_x, s.cstick_y, s.left, s.right>>

\* x |= m for a single-bit mask m
OrBit(x, m) == IF (x \div m) % 2 = 1 THEN x ELSE x + m
\* x & m != 0 for a single-bit mask m
HasBit(x, m) == (x \div m) % 2 = 1

----------------------------------------------------------------------------
(* The move queue *)

\* variant: the entry count is not reset
MoveQueue_clear_keepn(mq) ==
    [mq EXCEPT !.pos = 0,
               !.queue[0].status = initial_gc_status]

MoveQueue_clear(mq) ==
    [mq EXCEPT !.n = 0, !.pos = 0,
               !.queue[0].status = initial_gc_status]

\* variant: a full queue gives up its last slot to the new entry
MoveQueue_add_move_evict(mq, status, count) ==
    IF mq.n >= MOVE_QUEUE_MAX
    THEN [mq EXCEPT !.queue[MOVE_QUEUE_MAX - 1] =
                        [status |-> status, count |-> count]]
    ELSE [mq EXCEPT !.queue[mq.n] = [status |-> status, count |-> count],
                    !.n = mq.n + 1]

MoveQueue_add_move(mq, status, count) ==
    IF mq.n >= MOVE_QUEUE_MAX
    THEN mq
    ELSE [mq EXCEPT !.queue[mq.n] = [status |-> status, count |-> count],
                    !.n = mq.n + 1]

MoveQueue_get_status(mq) ==
    IF mq.pos < 0 \/ mq.pos >= mq.n
    THEN initial_gc_status
    ELSE mq.queue[mq.pos].status

\* variant: a drained queue is left as it is instead of being cleared
MoveQueue_next_noclear(mq) ==
    IF mq.pos >= mq.n
    THEN mq
    ELSE LET c == (mq.queue[mq.pos].count + UINT16 - 1) % UINT16
             dec == [mq EXCEPT !.queue[mq.pos].count = c]
         IN  IF c = 0 THEN [dec EXCEPT !.pos = mq.pos + 1] ELSE dec

\* variant: the cursor is not moved on when a count reaches 0
MoveQueue_next_stuck(mq) ==
    IF mq.pos >= mq.n
    THEN MoveQueue_clear(mq)
    ELSE [mq EXCEPT !.queue[mq.pos].count =
                        (mq.queue[mq.pos].count + UINT16 - 1) % UINT16]

\* variant: the count is tested before it is decremented
MoveQueue_next_postdec(mq) ==
    IF mq.pos >= mq.n
    THEN MoveQueue_clear(mq)
    ELSE LET old == mq.queue[mq.pos].count
             dec == [mq EXCEPT !.queue[mq.pos].count =
                                   (old + UINT16 - 1) % UINT16]
         IN  IF old = 0 THEN [dec EXCEPT !.pos = mq.pos + 1] ELSE dec

\* the queue after MoveQueue_next; the value returned is
\* MoveQueue_get_status of the result
MoveQueue_next(mq) ==
    IF mq.pos >= mq.n
    THEN MoveQueue_clear(mq)
    ELSE LET c == (mq.queue[mq.pos].count + UINT16 - 1) % UINT16
             dec == [mq EXCEPT !.queue[mq.pos].count = c]
         IN  IF c = 0 THEN [dec EXCEPT !.pos = mq.pos + 1] ELSE dec

----------------------------------------------------------------------------
(* Decoding of a move code and construction of the queue: loop(), 127-181 *)

DeltaX(code) == ((code \div 8) % 8) - 2
Rot(code) == (code \div 2) % 4
DownFast(code) == code % 2 = 1

\* the stick part of one pass of the do-while body
StickStep(st, dx) ==
    IF dx > 0 THEN [st EXCEPT !.stick_x = 255]
    ELSE IF dx < 0 THEN [st EXCEPT !.stick_x = 0]
    ELSE st
NextDelta(dx) == IF dx > 0 THEN dx - 1 ELSE IF dx < 0 THEN dx + 1 ELSE dx

\* the switch(rot) of one pass of the do-while body
RotStep(st, rot) ==
    IF rot \in {1, 2} THEN [st EXCEPT !.data1 = OrBit(st.data1, 4)]
    ELSE IF rot = 3 THEN [st EXCEPT !.data1 = OrBit(st.data1, 1)]
    ELSE st
\* variant: rotation code 3 is decremented like codes 1 and 2
NextRot_decrement(rot) == IF rot \in {1, 2, 3} THEN rot - 1 ELSE rot
\* variant: any rotation code is used up by one press
NextRot_single(rot) == IF rot \in {1, 2, 3} THEN 0 ELSE rot
NextRot(rot) == IF rot \in {1, 2} THEN rot - 1 ELSE IF rot = 3 THEN 0 ELSE rot

\* variant: a while loop, whose body is skipped when nothing is to be done
RECURSIVE MoveLoop_pretest(_, _, _)
MoveLoop_pretest(mq, dx, rot) ==
    IF dx = 0 /\ rot = 0 THEN mq
    ELSE LET press == RotStep(StickStep(initial_gc_status, dx), rot)
             dx2 == NextDelta(dx)
             rot2 == NextRot(rot)
             q1 == MoveQueue_add_move(mq, press, 1)
             q2 == IF dx2 # 0 \/ rot2 # 0
                   THEN MoveQueue_add_move(q1, initial_gc_status, 1)
                   ELSE q1
         IN  MoveLoop_pretest(q2, dx2, rot2)

\* variant: every press is followed by a release, the last one too
RECURSIVE MoveLoop_release(_, _, _)
MoveLoop_release(mq, dx, rot) ==
    LET press == RotStep(StickStep(initial_gc_status, dx), rot)
        dx2 == NextDelta(dx)
        rot2 == NextRot(rot)
        q1 == MoveQueue_add_move(mq, press, 1)
        q2 == MoveQueue_add_move(q1, initial_gc_status, 1)
    IN  IF dx2 # 0 \/ rot2 # 0 THEN MoveLoop_release(q2, dx2, rot2) ELSE q2

\* variant: no release is appended between two presses
RECURSIVE MoveLoop_norelease(_, _, _)
MoveLoop_norelease(mq, dx, rot) ==
    LET press == RotStep(StickStep(initial_gc_status, dx), rot)
        dx2 == NextDelta(dx)
        rot2 == NextRot(rot)
        q1 == MoveQueue_add_move(mq, press, 1)
    IN  IF dx2 # 0 \/ rot2 # 0 THEN MoveLoop_norelease(q1, dx2, rot2) ELSE q1

\* the do { ... } while(delta_x != 0 || rot != 0) loop
RECURSIVE MoveLoop(_, _, _)
MoveLoop(mq, dx, rot) ==
    LET press == RotStep(StickStep(initial_gc_status, dx), rot)
        dx2 == NextDelta(dx)
        rot2 == NextRot(rot)
        q1 == MoveQueue_add_move(mq, press, 1)
        q2 == IF dx2 # 0 \/ rot2 # 0
              THEN MoveQueue_add_move(q1, initial_gc_status, 1)
              ELSE q1
    IN  IF dx2 # 0 \/ rot2 # 0 THEN MoveLoop(q2, dx2, rot2) ELSE q2

\* variant: the fast-drop entry is held for one tick only
FastDrop_once(mq, code) ==
    IF DownFast(code)
    THEN MoveQueue_add_move(mq, [initial_gc_status EXCEPT !.stick_y = 0], 1)
    ELSE mq

\* if(down_fast) { ... }
FastDrop(mq, code) ==
    IF DownFast(code)
    THEN MoveQueue_add_move(mq, [initial_gc_status EXCEPT !.stick_y = 0],
                            FAST_DROP_COUNT)
    ELSE mq

\* variant: the closing neutral entry is not appended
FinalNeutral_missing(mq) == mq

\* "Clear controller one last time"
FinalNeutral(mq) == MoveQueue_add_move(mq, initial_gc_status, 1)

\* the whole Serial.available() branch applied to the queue
BuildQueue(mq, code) ==
    FinalNeutral(FastDrop(MoveLoop(MoveQueue_clear(mq),
                                   DeltaX(code), Rot(code)), code))

RECURSIVE SumCounts(_, _)
SumCounts(mq, k) ==
    IF k >= mq.n THEN 0 ELSE mq.queue[k].count + SumCounts(mq, k + 1)

----------------------------------------------------------------------------
(* The bus transport as the dispatcher sees it *)

\* variant: the byte is shifted out least significant bit first
RECURSIVE ShiftOut_lsb(_, _)
ShiftOut_lsb(reg, nbits) ==
    IF nbits = 0 THEN <<>>
    ELSE <<reg % 2>> \o ShiftOut_lsb(reg \div 2, nbits - 1)

\* the eight bits of a byte as lsl/brcc put them out: most significant first
RECURSIVE ShiftOut(_, _)
ShiftOut(reg, nbits) ==
    IF nbits = 0 THEN <<>>
    ELSE <<reg \div 128>> \o ShiftOut((reg * 2) % 256, nbits - 1)

\* gc_send: the bits of length bytes of buffer, then the stop bit 1
RECURSIVE gc_send(_, _)
gc_send(buffer, length) ==
    IF length = 0 THEN <<1>>
    ELSE ShiftOut(Head(buffer), 8) \o gc_send(Tail(buffer), length - 1)

----------------------------------------------------------------------------
(* State after setup() *)

InitQueue ==
    MoveQueue_clear([queue |-> [k \in 0..(MOVE_QUEUE_MAX - 1) |->
                                   [status |-> zero_gc_status, count |-> 0]],
                     n |-> 0, pos |-> 0])

InitLoop ==
    /\ move_queue = InitQueue
    /\ gc_status = initial_gc_status
    /\ i = 0
    /\ pc = "recv"
    /\ ret = NoByte
    /\ from_gc = NoByte
    /\ tx = <<>>
    /\ b = NoByte
    /\ advances = 0
    /\ total = 0
    /\ gap = NoByte

InitGet ==
    /\ gpc = "idle"
    /\ r23 = 0
    /\ r24 = 0
    /\ r25 = 0
    /\ retval = NoByte
    /\ line = 1
    /\ sent = <<>>
    /\ wire = <<>>
    /\ clock = 0

Init == InitLoop /\ InitGet

----------------------------------------------------------------------------
(* loop(): one action per stage of an iteration *)

\* variant: an if instead of the do-while, a failed gc_get falls through
GcGetFail_through ==
    /\ pc = "recv"
    /\ ret' = 0
    /\ \E g \in Commands : from_gc' = g
    /\ pc' = "dispatch"
    /\ UNCHANGED <<loopVars, getVars>>

\* gc_get returned 0: the do-while calls it again
GcGetFail ==
    /\ pc = "recv"
    /\ ret' = 0
    /\ \E g \in Commands : from_gc' = g
    /\ pc' = "recv"
    /\ UNCHANGED <<loopVars, getVars>>

\* gc_get returned 1 with the command byte c
GcGetOk(c) ==
    /\ pc = "recv"
    /\ ret' = 1
    /\ from_gc' = c
    /\ pc' = "dispatch"
    /\ UNCHANGED <<loopVars, getVars>>

\* variant: the default case answers with the controller state
Respond_default(cmd, status) ==
    CASE cmd = 0 -> gc_send(identify_response, 3)
      [] cmd = 65 -> gc_send(origin_response, 10)
      [] OTHER -> gc_send(StatusBytes(status), 8)

\* switch(from_gc)
Respond(cmd, status) ==
    CASE cmd = 0 -> gc_send(identify_response, 3)
      [] cmd = 65 -> gc_send(origin_response, 10)
      [] cmd = 64 -> gc_send(StatusBytes(status), 8)
      [] OTHER -> <<>>

Dispatch ==
    /\ pc = "dispatch"
    /\ tx' = Respond(from_gc, gc_status)
    /\ pc' = "host"
    /\ UNCHANGED <<move_queue, gc_status, i, ret, from_gc, b, advances, total,
                   gap, getVars>>

\* variant: the counter i is not set back to 0
HostMove_noreset(code) ==
    /\ pc = "host"
    /\ LET mq == BuildQueue(move_queue, code)
       IN  /\ move_queue' = mq
           /\ gc_status' = MoveQueue_get_status(mq)
           /\ total' = SumCounts(mq, 0)
    /\ b' = code
    /\ advances' = 0
    /\ gap' = NoByte
    /\ i' = (i + 1) % UINT16
    /\ pc' = "recv"
    /\ from_gc' = NoByte
    /\ tx' = <<>>
    /\ UNCHANGED <<ret, getVars>>

\* Serial.available() is true and Serial.read() gives code
HostMove(code) ==
    /\ pc = "host"
    /\ LET mq == BuildQueue(move_queue, code)
       IN  /\ move_queue' = mq
           /\ gc_status' = MoveQueue_get_status(mq)
           /\ total' = SumCounts(mq, 0)
    /\ b' = code
    /\ advances' = 0
    /\ gap' = NoByte
    /\ i' = (0 + 1) % UINT16
    /\ pc' = "recv"
    /\ from_gc' = NoByte
    /\ tx' = <<>>
    /\ UNCHANGED <<ret, getVars>>

\* variant: gc_status is taken from the queue before it is advanced
HostIdle_stale ==
    /\ pc = "host"
    /\ i < MaxIter \/ i >= UINT16 - WrapLead
    /\ IF i % ADVANCE_PERIOD = 0
       THEN /\ move_queue' = MoveQueue_next(move_queue)
            /\ gc_status' = MoveQueue_get_status(move_queue)
            /\ advances' = advances + 1
            /\ gap' = 0
       ELSE /\ UNCHANGED <<move_queue, gc_status, advances>>
            /\ gap' = IF gap = NoByte THEN NoByte ELSE gap + 1
    /\ i' = (i + 1) % UINT16
    /\ pc' = "recv"
    /\ from_gc' = NoByte
    /\ tx' = <<>>
    /\ UNCHANGED <<ret, b, total, getVars>>

\* Serial.available() is false
HostIdle ==
    /\ pc = "host"
    /\ i < MaxIter \/ i >= UINT16 - WrapLead
    /\ IF i % ADVANCE_PERIOD = 0
       THEN LET mq == MoveQueue_next(move_queue)
            IN  /\ move_queue' = mq
                /\ gc_status' = MoveQueue_get_status(mq)
                /\ advances' = advances + 1
                /\ gap' = 0
       ELSE /\ UNCHANGED <<move_queue, gc_status, advances>>
            /\ gap' = IF gap = NoByte THEN NoByte ELSE gap + 1
    /\ i' = (i + 1) % UINT16
    /\ pc' = "recv"
    /\ from_gc' = NoByte
    /\ tx' = <<>>
    /\ UNCHANGED <<ret, b, total, getVars>>

Next ==
    \/ GcGetFail
    \/ \E c \in Commands : GcGetOk(c)
    \/ Dispatch
    \/ \E code \in HostCodes : HostMove(code)
    \/ HostIdle

Spec == Init /\ [][Next]_vars

\* The host sends one move code, any byte, in the whole run
FirstMove(code) ==
    /\ b = NoByte
    /\ HostMove(code)

NextAllCodes ==
    \/ GcGetFail
    \/ \E c \in Commands : GcGetOk(c)
    \/ Dispatch
    \/ \E code \in AllCodes : FirstMove(code)
    \/ HostIdle

SpecAllCodes == Init /\ [][NextAllCodes]_vars

\* The console keeps sending commands: every gc_get is followed by one that
\* succeeds, and loop() runs on from there
SpecAllCodesFair ==
    /\ SpecAllCodes
    /\ WF_vars(\E c \in Commands : GcGetOk(c))
    /\ WF_vars(Dispatch)
    /\ WF_vars(HostIdle)

\* The state WrapLead iterations before i wraps, in a run from setup() in
\* which no move code has arrived: the queue is as setup() left it, since
\* MoveQueue_next on an empty queue only clears it again
InitWrap ==
    /\ move_queue = InitQueue
    /\ gc_status = initial_gc_status
    /\ i = UINT16 - WrapLead
    /\ pc = "recv"
    /\ ret = 1
    /\ from_gc = NoByte
    /\ tx = <<>>
    /\ b = NoByte
    /\ advances = ((UINT16 - WrapLead - 1) \div ADVANCE_PERIOD) + 1
    /\ total = 0
    /\ gap = (UINT16 - WrapLead - 1) % ADVANCE_PERIOD
    /\ InitGet

SpecWrap == InitWrap /\ [][Next]_vars

----------------------------------------------------------------------------
(* gc_get: the receive assembly block, one action per basic block *)

\* entry: r25 = 0, retval = 1; r23 is never initialised
Enter ==
    /\ pc = "recv"
    /\ gpc = "idle"
    /\ r25' = 0
    /\ retval' = 1
    /\ \E g \in UninitBytes : r23' = g
    /\ gpc' = "read_loop"
    /\ UNCHANGED <<loopVars, pc, ret, from_gc, r24, line>>

\* L_read_loop: load the timeout counter of the first spin loop
ReadLoop ==
    /\ gpc = "read_loop"
    /\ r24' = SPIN_BUDGET
    /\ gpc' = "L1"
    /\ UNCHANGED <<loopVars, pc, ret, from_gc, r23, r25, retval, line>>

\* where the first spin loop goes once brne falls through (r24 = 0):
\* "jmp L_1" at line 397 is not commented out, so the timeout code below
\* it (retval = 0, rjmp exit) is never executed
BudgetSpent == "L1"

\* L_1: one pass of the wait for the line to go low, sbis reading lvl
SpinLow(lvl) ==
    /\ gpc = "L1"
    /\ line' = lvl
    /\ IF lvl = 0
       THEN /\ gpc' = "L2"
            /\ UNCHANGED <<r24, retval>>
       ELSE LET c == (r24 + 255) % 256
            IN  /\ r24' = c
                /\ IF c # 0
                   THEN gpc' = "L1" /\ UNCHANGED retval
                   ELSE IF BudgetSpent = "L1"
                        THEN gpc' = "L1" /\ UNCHANGED retval
                        ELSE gpc' = "exit" /\ retval' = 0
    /\ UNCHANGED <<loopVars, pc, ret, from_gc, r23, r25>>

\* L_2: about 2 microseconds after the falling edge, shift the level of
\* the line, lvl, into r23, store it through Z, count the bit
Sample(lvl) ==
    /\ gpc = "L2"
    /\ line' = lvl
    /\ r23' = ((r23 * 2) % 256) + lvl
    /\ from_gc' = ((r23 * 2) % 256) + lvl
    /\ r25' = (r25 + 1) % 256
    /\ IF (r25 + 1) % 256 = 8
       THEN gpc' = "exit" /\ UNCHANGED r24
       ELSE gpc' = "L4" /\ r24' = SPIN_BUDGET
    /\ UNCHANGED <<loopVars, pc, ret, retval>>

\* L_4: one pass of the wait for the line to go high again, sbic reading lvl
SpinHigh(lvl) ==
    /\ gpc = "L4"
    /\ line' = lvl
    /\ IF lvl = 1
       THEN /\ gpc' = "read_loop"
            /\ UNCHANGED <<r24, retval>>
       ELSE LET c == (r24 + 255) % 256
            IN  /\ r24' = c
                /\ IF c # 0
                   THEN gpc' = "L4" /\ UNCHANGED retval
                   ELSE gpc' = "exit" /\ retval' = 0
    /\ UNCHANGED <<loopVars, pc, ret, from_gc, r23, r25>>

\* L_exit: return retval to the do-while of loop()
Exit ==
    /\ gpc = "exit"
    /\ ret' = retval
    /\ gpc' = "idle"
    /\ pc' = IF retval = 1 THEN "dispatch" ELSE "recv"
    /\ UNCHANGED <<loopVars, from_gc, r23, r24, r25, retval, line>>

(* gc_get on a line whose level at each read is not constrained *)

GetEnter == Enter /\ UNCHANGED busVars
GetReadLoop == ReadLoop /\ UNCHANGED busVars
GetSpinLow == (\E lvl \in {0, 1} : SpinLow(lvl)) /\ UNCHANGED busVars
GetSample == (\E lvl \in {0, 1} : Sample(lvl)) /\ UNCHANGED busVars
GetSpinHigh == (\E lvl \in {0, 1} : SpinHigh(lvl)) /\ UNCHANGED busVars
GetExit == Exit /\ UNCHANGED busVars

(* gc_get on a line driven by gc_send at the far end.  Times are in CPU  *)
(* cycles of 1/16 microsecond, as counted in the comments of gc_send.    *)

\* cycles the line is low for a 1 bit, for a 0 bit, and cycles per bit
LOW_ONE == 16
LOW_ZERO == 48
BIT_CYCLES == 64

\* the level of the line at cycle t while the bits w are sent from cycle 0
Level(w, t) ==
    IF t < 0 \/ t >= BIT_CYCLES * Len(w)
    THEN 1
    ELSE LET bit == w[(t \div BIT_CYCLES) + 1]
             off == t % BIT_CYCLES
         IN  IF off < (IF bit = 1 THEN LOW_ONE ELSE LOW_ZERO) THEN 0 ELSE 1

\* controller states sent over the line: every first byte, two fillings
LoopbackStatuses ==
    {[initial_gc_status EXCEPT !.data1 = d] : d \in Byte} \cup
    {[data1 |-> d, data2 |-> 255, stick_x |-> 0, stick_y |-> 255,
      cstick_x |-> 85, cstick_y |-> 170, left |-> 255, right |-> 1] :
        d \in Byte}

InitLoopback ==
    /\ InitLoop
    /\ gpc = "idle"
    /\ r23 = 0
    /\ r24 = 0
    /\ r25 = 0
    /\ retval = NoByte
    /\ line = 1
    /\ \E st \in LoopbackStatuses :
          /\ sent = StatusBytes(st)
          /\ wire = gc_send(StatusBytes(st), 8)
    /\ \E lead \in 1..MaxLead : clock = 0 - lead

\* ldi r25, ldi retval
WireEnter ==
    /\ Enter
    /\ clock' = clock + 2
    /\ UNCHANGED <<sent, wire>>

\* ldi r24
WireReadLoop ==
    /\ ReadLoop
    /\ clock' = clock + 1
    /\ UNCHANGED <<sent, wire>>

\* sbis reads the line now; low: sbis 1, rjmp 2; high: sbis 2, subi 1,
\* brne 2, or brne 1 and jmp 3 when the counter has run out
WireSpinLow ==
    /\ SpinLow(Level(wire, clock))
    /\ clock' = clock + (IF Level(wire, clock) = 0 THEN 3
                         ELSE IF r24 # 1 THEN 5 ELSE 7)
    /\ UNCHANGED <<sent, wire>>

\* 30 nop and lsl, then sbic reads the line; sbic/sbr 2, st 2, subi 1,
\* cpi 1, then breq 2 to the exit, or breq 1, mov 1, andi 1, brne 2, ldi 1
WireSample ==
    /\ Sample(Level(wire, clock + 31))
    /\ clock' = clock + 31 + (IF (r25 + 1) % 256 = 8 THEN 8 ELSE 12)
    /\ UNCHANGED <<sent, wire>>

\* sbic reads the line now; high: sbic 1, rjmp 2; low: sbic 2, subi 1,
\* brne 2, or brne 1 and ldi 1 on the timeout
WireSpinHigh ==
    /\ SpinHigh(Level(wire, clock))
    /\ clock' = clock + (IF Level(wire, clock) = 1 THEN 3 ELSE 5)
    /\ UNCHANGED <<sent, wire>>

WireExit == Exit /\ UNCHANGED busVars

NextLoopback ==
    \/ WireEnter
    \/ WireReadLoop
    \/ WireSpinLow
    \/ WireSample
    \/ WireSpinHigh
    \/ WireExit

SpecLoopback == InitLoopback /\ [][NextLoopback]_vars

NextGet ==
    \/ GetEnter
    \/ GetReadLoop
    \/ GetSpinLow
    \/ GetSample
    \/ GetSpinHigh
    \/ GetExit

SpecGet == Init /\ [][NextGet]_vars

----------------------------------------------------------------------------
(* Properties *)

NeutralBytes == <<0, 0, 128, 128, 128, 128, 0, 0>>
StickRightBytes == <<0, 0, 255, 128, 128, 128, 0, 0>>

\* the queue is exactly as the last move code built it
Fresh == b # NoByte /\ advances = 0

Entry(k) == move_queue.queue[k]
EntryIs(k, bytes, count) ==
    /\ StatusBytes(Entry(k).status) = bytes
    /\ Entry(k).count = count
Used == 0..(move_queue.n - 1)

LastIsNeutral ==
    /\ move_queue.n >= 1
    /\ StatusBytes(Entry(move_queue.n - 1).status) = NeutralBytes

\* C1: for every valid move code (displacement code 0..4, any rotation,
\* any fast-drop flag) the last entry of the queue it builds is neutral.
C1_ValidCodeEndsNeutral ==
    (Fresh /\ ((b \div 8) % 8) \in 0..4) => LastIsNeutral

C1_Witness ==
    /\ Fresh
    /\ b = 39
    /\ move_queue.n = 5
    /\ Entry(3).status.stick_y = 0
    /\ StatusBytes(Entry(4).status) = NeutralBytes

\* C2: for every move code byte 0..255 the last entry of the queue it
\* builds is neutral.
C2_EveryCodeEndsNeutral == Fresh => LastIsNeutral

\* C3 as stated: after exactly sum-of-repeat-counts advances the queue is in
\* the cleared state (n = 0, pos = 0), and from then on current is neutral.
C3_ClearedAfterSum ==
    (b # NoByte /\ advances >= total) =>
        /\ move_queue.n = 0
        /\ move_queue.pos = 0
        /\ StatusBytes(MoveQueue_get_status(move_queue)) = NeutralBytes

\* C3 amended: before sum-of-repeat-counts advances the cursor is on an
\* entry; after exactly that many the cursor is past the last entry
\* (pos = n) and current is neutral; the next advance clears the queue
\* (n = 0, pos = 0), and current stays neutral after every further advance.
C3_DrainedAfterSum ==
    b # NoByte =>
        /\ advances < total => move_queue.pos < move_queue.n
        /\ advances = total =>
              /\ move_queue.n > 0
              /\ move_queue.pos = move_queue.n
        /\ advances > total =>
              /\ move_queue.n = 0
              /\ move_queue.pos = 0
        /\ advances >= total =>
              /\ StatusBytes(MoveQueue_get_status(move_queue)) = NeutralBytes
              /\ StatusBytes(gc_status) = NeutralBytes

C3_Witness ==
    /\ b # NoByte
    /\ total = 17
    /\ advances = total + 2
    /\ move_queue.n = 0
    /\ StatusBytes(gc_status) = NeutralBytes

\* C4 as stated: displacement 0, rotation 0, no fast drop builds a queue of
\* exactly one entry, neutral with repeat-count 1.
C4_OneNeutralEntry ==
    (Fresh /\ b % 64 = 16) =>
        /\ move_queue.n = 1
        /\ EntryIs(0, NeutralBytes, 1)

\* C4 amended: displacement 0, rotation 0, no fast drop builds a queue of
\* exactly two entries, each neutral with repeat-count 1: the one pass of
\* the do-while body, then the closing neutral.
C4_TwoNeutralEntries ==
    (Fresh /\ b % 64 = 16) =>
        /\ move_queue.n = 2
        /\ EntryIs(0, NeutralBytes, 1)
        /\ EntryIs(1, NeutralBytes, 1)

C4_Witness ==
    /\ Fresh
    /\ b = 16
    /\ move_queue.n = 2
    /\ move_queue.pos = 0

\* C5 as stated: displacement +2, rotation 0, no fast drop builds exactly
\* five entries: right, neutral, right, neutral, neutral, each count 1.
C5_FiveEntries ==
    (Fresh /\ b % 64 = 32) =>
        /\ move_queue.n = 5
        /\ EntryIs(0, StickRightBytes, 1)
        /\ EntryIs(1, NeutralBytes, 1)
        /\ EntryIs(2, StickRightBytes, 1)
        /\ EntryIs(3, NeutralBytes, 1)
        /\ EntryIs(4, NeutralBytes, 1)

\* C5 amended: displacement +2, rotation 0, no fast drop builds exactly
\* four entries: right, neutral, right, closing neutral, each count 1.
C5_FourEntries ==
    (Fresh /\ b % 64 = 32) =>
        /\ move_queue.n = 4
        /\ EntryIs(0, StickRightBytes, 1)
        /\ EntryIs(1, NeutralBytes, 1)
        /\ EntryIs(2, StickRightBytes, 1)
        /\ EntryIs(3, NeutralBytes, 1)

C5_Witness ==
    /\ Fresh
    /\ b = 32
    /\ move_queue.n = 4
    /\ Entry(2).status.stick_x = 255

\* C6: with rotation code 3 exactly one entry has the A button (0x01) set,
\* the entry after it has A released, and no entry has X (0x04) set.
C6_OneAnticlockwise ==
    (Fresh /\ (b \div 2) % 4 = 3) =>
        /\ Cardinality({k \in Used : HasBit(Entry(k).status.data1, 1)}) = 1
        /\ \A k \in Used :
              HasBit(Entry(k).status.data1, 1) =>
                  /\ k + 1 \in Used
                  /\ ~HasBit(Entry(k + 1).status.data1, 1)
        /\ \A k \in Used : ~HasBit(Entry(k).status.data1, 4)

C6_Witness ==
    /\ Fresh
    /\ b = 7
    /\ Entry(0).status.data1 = 1
    /\ Entry(0).status.stick_x = 0
    /\ move_queue.n = 5

\* C7: fast drop alone (displacement 0, rotation 0) builds exactly one
\* entry with stick Y at 0; its repeat-count is 8 and it sits just before
\* the closing neutral entry.
C7_FastDropEntry ==
    (Fresh /\ b % 64 = 17) =>
        /\ Cardinality({k \in Used : Entry(k).status.stick_y = 0}) = 1
        /\ \A k \in Used :
              Entry(k).status.stick_y = 0 =>
                  /\ Entry(k).count = 8
                  /\ k = move_queue.n - 2
        /\ LastIsNeutral

C7_Witness ==
    /\ Fresh
    /\ b = 17
    /\ move_queue.n = 3
    /\ Entry(1).status.stick_y = 0
    /\ Entry(1).count = 8

\* states and counts an append is tried with
ProbeStatuses ==
    {initial_gc_status,
     [initial_gc_status EXCEPT !.stick_x = 255],
     [initial_gc_status EXCEPT !.stick_y = 0],
     [initial_gc_status EXCEPT !.data1 = 4]}
ProbeCounts == {1, 8}

\* C8: an append to a queue that holds 10 entries changes nothing: n, pos
\* and every entry stay as they were.  In particular the closing neutral of
\* move code 57, an 11th append, leaves the fast-drop entry in slot 9.
C8_FullQueueUnchanged ==
    /\ move_queue.n = 10 =>
          \A st \in ProbeStatuses, c \in ProbeCounts :
              LET after == MoveQueue_add_move(move_queue, st, c)
              IN  /\ after.n = move_queue.n
                  /\ after.pos = move_queue.pos
                  /\ \A k \in 0..9 : after.queue[k] = move_queue.queue[k]
    /\ (Fresh /\ b = 57) =>
          /\ move_queue.n = 10
          /\ move_queue.pos = 0
          /\ Entry(9).status.stick_y = 0
          /\ Entry(9).count = 8

C8_Witness ==
    /\ move_queue.n = 10
    /\ move_queue.pos = 3
    /\ b = 57
    /\ Entry(9).count = 8

\* the value of a sequence of bits, most significant first
RECURSIVE BitsValue(_)
BitsValue(bits) ==
    IF bits = <<>> THEN 0
    ELSE 2 * BitsValue(SubSeq(bits, 1, Len(bits) - 1)) + bits[Len(bits)]

\* the bytes of one transmission: groups of 8 bits closed by a stop bit 1
IsFrame(bits) ==
    /\ Len(bits) % 8 = 1
    /\ bits[Len(bits)] = 1
FrameBytes(bits) ==
    [k \in 1..((Len(bits) - 1) \div 8) |->
        BitsValue(SubSeq(bits, 8 * (k - 1) + 1, 8 * k))]

\* C9: the dispatcher answers 0x00 with the 3-byte identify record, 0x41
\* with the 10-byte origin record, 0x40 with the 8 bytes of the current
\* controller state, and any other command byte with nothing; in every
\* case it goes on to the host-link check and then awaits the next command.
C9_Dispatcher ==
    [][ /\ pc = "dispatch" =>
              /\ pc' = "host"
              /\ from_gc = 0 =>
                    IsFrame(tx') /\ FrameBytes(tx') = <<9, 0, 32>>
              /\ from_gc = 65 =>
                    /\ IsFrame(tx')
                    /\ FrameBytes(tx') =
                          <<0, 128, 125, 135, 130, 133, 31, 34, 0, 0>>
              /\ from_gc = 64 =>
                    /\ IsFrame(tx')
                    /\ FrameBytes(tx') =
                          <<gc_status.data1, gc_status.data2,
                            gc_status.stick_x, gc_status.stick_y,
                            gc_status.cstick_x, gc_status.cstick_y,
                            gc_status.left, gc_status.right>>
              /\ from_gc \notin {0, 64, 65} => tx' = <<>>
        /\ pc = "host" => pc' = "recv"
      ]_vars

C9_Witness ==
    /\ pc = "host"
    /\ from_gc = 64
    /\ Len(tx) = 65
    /\ gc_status.stick_x = 255
    /\ FrameBytes(tx) = StickRightBytes

\* C10: when the line is still high as the first spin loop of gc_get uses
\* up its budget of 64 passes, gc_get gives up and returns failure.
C10_GivesUpWhenLineStaysHigh ==
    [][ (gpc = "L1" /\ r24 = 1 /\ line' = 1) =>
            (gpc' = "exit" /\ retval' = 0) ]_vars

\* C11 as stated: the stream gc_send puts on the line for an 8-byte
\* controller state is decoded by gc_get into the same 8 bytes.
C11_RoundTripState ==
    gpc = "exit" =>
        /\ retval = 1
        /\ r25 \div 8 = Len(sent)
        /\ from_gc = sent[1]

\* C11 amended: of the stream gc_send puts on the line for an 8-byte
\* controller state, gc_get decodes the first 8 bits into the first byte of
\* the state and returns success; it reads exactly 8 bits, so the other 7
\* bytes are not decoded.
C11_RoundTripFirstByte ==
    /\ gpc = "exit" =>
          /\ retval = 1
          /\ r25 = 8
          /\ from_gc = sent[1]
          /\ Len(sent) = 8
    /\ pc = "dispatch" => (ret = 1 /\ from_gc = sent[1])

C11_Witness ==
    /\ gpc = "exit"
    /\ retval = 1
    /\ from_gc = 165
    /\ sent[1] = 165
    /\ sent[2] = 255
    /\ clock > 7 * 64

\* C12: in a run of iterations without a move code, two successive calls of
\* MoveQueue_next are exactly 5 iterations apart, across the wrap of i too.
C12_FixedCadence ==
    [][ (advances' = advances + 1 /\ gap # NoByte) => gap + 1 = 5 ]_vars

\* the queue a move code builds, whatever was there before
Built(code) == BuildQueue(InitQueue, code)

\* C13: after a move code is consumed the queue holds what that code
\* builds and nothing of the queue before it: same n, same entries, cursor
\* at 0, the counter i restarted (the first advance is due at i = 5), and
\* gc_status is entry 0.
C13_QueueReplaced ==
    Fresh =>
        /\ move_queue.n = Built(b).n
        /\ \A k \in Used : Entry(k) = Built(b).queue[k]
        /\ move_queue.pos = 0
        /\ i \in 1..5
        /\ gc_status = Entry(0).status

C13_Witness ==
    /\ Fresh
    /\ b = 16
    /\ i = 1
    /\ Entry(2).count = 0
    /\ Entry(3).count = 1
    /\ Entry(9).count = 8
    /\ Entry(9).status.stick_y = 0

\* C14: once a move code has been consumed and no other arrives, while the
\* console keeps sending commands, the reported state becomes neutral and
\* stays neutral.
C14_EventuallyNeutral ==
    [](b # NoByte => <>[](StatusBytes(gc_status) = NeutralBytes))

C14_Witness ==
    /\ b = 57
    /\ pc = "recv"
    /\ advances = 17
    /\ move_queue.pos = 10
    /\ StatusBytes(gc_status) = NeutralBytes

StickOff(k) == Entry(k).status.stick_x # 128
Rotates(k) ==
    HasBit(Entry(k).status.data1, 4) \/ HasBit(Entry(k).status.data1, 1)

\* C15: in the queue built from any move code byte no two adjacent entries
\* both have stick X off centre and no two both have a rotate button set;
\* every entry with either is followed by an entry with neither.
C15_PressThenRelease ==
    Fresh =>
        /\ \A k \in Used :
              (k + 1) \in Used =>
                  /\ ~(StickOff(k) /\ StickOff(k + 1))
                  /\ ~(Rotates(k) /\ Rotates(k + 1))
        /\ \A k \in Used :
              (StickOff(k) \/ Rotates(k)) =>
                  /\ (k + 1) \in Used
                  /\ ~StickOff(k + 1)
                  /\ ~Rotates(k + 1)

C15_Witness ==
    /\ Fresh
    /\ b = 63
    /\ move_queue.n = 10
    /\ Entry(0).status.data1 = 1
    /\ Entry(8).status.stick_x = 255
    /\ Entry(9).status.stick_y = 0

\* C16: a gc_get that returns 0 leads straight back to gc_get: nothing is
\* sent, no move code is read, and the queue, its cursor, i and gc_status
\* stay as they were.
C16_FailedReceiveRetries ==
    [][ (pc = "recv" /\ ret' = 0) =>
            /\ pc' = "recv"
            /\ tx' = tx
            /\ b' = b
            /\ move_queue' = move_queue
            /\ i' = i
            /\ gc_status' = gc_status ]_vars

C16_Witness ==
    /\ pc = "recv"
    /\ ret = 0
    /\ move_queue.pos = 4
    /\ move_queue.n = 10
    /\ i = 22

RotateEntries == {k \in Used : Rotates(k)}

\* C17 as stated: with rotation code 1, 2 or 3 exactly one entry of the
\* built queue has a rotate button set.
C17_OneRotation ==
    (Fresh /\ (b \div 2) % 4 \in {1, 2, 3}) => Cardinality(RotateEntries) = 1

\* C17 amended: rotation codes 1 and 3 build exactly one entry with a
\* rotate button set (X for 1, A for 3); rotation code 2 builds exactly two,
\* both X, entries 0 and 2 with a release between them.
C17_RotationSteps ==
    /\ (Fresh /\ (b \div 2) % 4 = 1) =>
          /\ RotateEntries = {0}
          /\ HasBit(Entry(0).status.data1, 4)
          /\ ~HasBit(Entry(0).status.data1, 1)
    /\ (Fresh /\ (b \div 2) % 4 = 3) =>
          /\ RotateEntries = {0}
          /\ HasBit(Entry(0).status.data1, 1)
          /\ ~HasBit(Entry(0).status.data1, 4)
    /\ (Fresh /\ (b \div 2) % 4 = 2) =>
          /\ RotateEntries = {0, 2}
          /\ \A k \in {0, 2} :
                /\ HasBit(Entry(k).status.data1, 4)
                /\ ~HasBit(Entry(k).status.data1, 1)

C17_Witness ==
    /\ Fresh
    /\ b = 20
    /\ move_queue.n = 4
    /\ Entry(0).status.data1 = 4
    /\ Entry(1).status.data1 = 0
    /\ Entry(2).status.data1 = 4

\* the state of the entry that is current after tick advances of mq
RECURSIVE StatusAtTick(_, _, _)
StatusAtTick(mq, k, tick) ==
    IF k >= mq.n THEN initial_gc_status
    ELSE IF tick < mq.queue[k].count THEN mq.queue[k].status
    ELSE StatusAtTick(mq, k + 1, tick - mq.queue[k].count)

\* C18: after a move code, with i counting the iterations since, the state
\* reported in iteration i is that of the entry current after (i-1) div 5
\* advances: each entry with count c is reported in 5*c iterations in a
\* row, in queue order, then neutral.
C18_EntryHeld ==
    (b # NoByte /\ i >= 1) =>
        gc_status = StatusAtTick(Built(b), 0, (i - 1) \div 5)

C18_Witness ==
    /\ b = 57
    /\ pc = "dispatch"
    /\ from_gc = 1
    /\ i = 85
    /\ advances = 16
    /\ gc_status.stick_y = 0

\* C19: gc_status is the entry under the cursor, or neutral when the
\* cursor is out of range.
C19_StatusIsCurrent ==
    gc_status =
        IF move_queue.pos >= 0 /\ move_queue.pos < move_queue.n
        THEN Entry(move_queue.pos).status
        ELSE initial_gc_status

C19_Witness ==
    /\ pc = "recv"
    /\ b = 32
    /\ move_queue.pos = 2
    /\ move_queue.n = 4
    /\ gc_status.stick_x = 255
    /\ i = 11

\* C20: 0 <= pos <= n <= 10, and every entry from the cursor on has a
\* repeat-count of at least 1.
C20_QueueInRange ==
    /\ 0 <= move_queue.pos
    /\ move_queue.pos <= move_queue.n
    /\ move_queue.n <= 10
    /\ \A k \in Used : k >= move_queue.pos => Entry(k).count >= 1

C20_Witness ==
    /\ move_queue.n = 10
    /\ move_queue.pos = 9
    /\ Entry(9).count = 3
    /\ Entry(8).count = 0

TypeOK ==
    /\ move_queue.n \in 0..MOVE_QUEUE_MAX
    /\ move_queue.pos \in 0..MOVE_QUEUE_MAX
    /\ i \in 0..(UINT16 - 1)
    /\ pc \in {"recv", "dispatch", "host"}
    /\ r24 \in Byte /\ r23 \in Byte

====
